---- MODULE Spec2Model ----
(***************************************************************************)
(* Model of add-interactive.c: the status listing of `git add -i`.         *)
(*                                                                         *)
(* get_modified_files() runs two diffs (worktree vs. index, then index vs. *)
(* HEAD), collect_changes_cb() merges the per-path statistics of both into *)
(* one file_item per path through the hashmap file_map, the list is sorted *)
(* by name and run_status() prints it.                                     *)
(*                                                                         *)
(* C strings are sequences of byte values (0..255, no NUL), slot indices   *)
(* are 0-based as in the code (list[i + 1] is file[i]).                    *)
(***************************************************************************)
EXTENDS Integers, Sequences, FiniteSets, TLC

\* ------------------------------------------------------------------ bounds
\* most stat entries the diff engine hands over in one run (both passes)
MaxEmissions == 3
\* most stat entries in one callback batch (stat.nr)
MaxBatchLen == 2
\* most callback invocations inside one diff pass
MaxBatches == 2
\* most run_status() calls on the same file_list (SpecRuns only)
MaxRuns == 2

\* ------------------------------------------------------------------ inputs
\* the pathnames the diff engine may report: "a", "ab", "B"
Paths == { <<97>>, <<97, 98>>, <<66>> }
\* the (added, deleted, is_binary) triples the diff engine may report
StatVals == { <<3, 1, FALSE>>, <<3, 1, TRUE>>, <<0, 2, FALSE>> }
\* one element of stat.files[]: name, added, deleted, is_binary
Emissions ==
    {[name |-> n, added |-> v[1], deleted |-> v[2], is_binary |-> v[3]] :
        n \in Paths, v \in StatVals}

\* ------------------------------------------------------------------ phases
FROM_WORKTREE == 0
FROM_INDEX == 1

\* ------------------------------------------------------------- libc strcmp
\* sign of the byte-wise comparison of two NUL-terminated strings
RECURSIVE strcmp(_, _)
strcmp(a, b) ==
    IF a = <<>> /\ b = <<>> THEN 0
    ELSE IF a = <<>> THEN -1
    ELSE IF b = <<>> THEN 1
    ELSE IF Head(a) < Head(b) THEN -1
    ELSE IF Head(a) > Head(b) THEN 1
    ELSE strcmp(Tail(a), Tail(b))

\* ----------------------------------------------------------- struct adddel
\* a zero-filled struct adddel (the item is calloc'ed)
ZeroAdddel == [add |-> 0, del |-> 0, seen |-> FALSE, binary |-> FALSE]

\* add_file_item() on uncleared memory: the new item's index side reads seen
add_file_item_dirty(list, name) ==
    Append(list, [name |-> name,
                  index |-> [add |-> 0, del |-> 0, seen |-> TRUE,
                             binary |-> FALSE],
                  worktree |-> [add |-> 0, del |-> 0, seen |-> FALSE,
                                binary |-> FALSE]])

\* add_file_item() that puts the new item in front
add_file_item_front(list, name) ==
    <<[name |-> name, index |-> ZeroAdddel, worktree |-> ZeroAdddel]>> \o list

\* add_file_item(): append a zero-filled file_item carrying a copy of name
add_file_item(list, name) ==
    Append(list, [name |-> name, index |-> ZeroAdddel, worktree |-> ZeroAdddel])

\* reset_file_list() that forgets nr = 0
reset_file_list_keep(list) == list

\* reset_file_list(): free every item, nr = 0
reset_file_list(list) == <<>>

\* release_file_list(): reset, then free the array
release_file_list(list) == reset_file_list(list)

\* file_item_cmp() with its operands exchanged
file_item_cmp_reversed(f1, f2) == strcmp(f2.name, f1.name)

\* file_item_cmp(): order of two file_items, by name
file_item_cmp(f1, f2) == strcmp(f1.name, f2.name)

\* --------------------------------------------------------------- file_map
\* a string hash with collisions: "a" and "ab" share a bucket, "B" does not
RECURSIVE SumBytes(_)
SumBytes(s) == IF s = <<>> THEN 0 ELSE Head(s) + SumBytes(Tail(s))

strhash(name) == SumBytes(name) % 2

\* the NULL pathname_entry pointer
NULL == [hash |-> -1, index |-> -1, pathname |-> <<>>]
\* the NULL keydata pointer (a value no C string takes)
NoKeydata == <<0>>

\* pathname_entry_cmp() that ignores the keydata
pathname_entry_cmp_nokey(entry, entry_or_key, pathname) ==
    strcmp(entry.pathname, entry_or_key.pathname)

\* pathname_entry_cmp() that compares the first byte only
pathname_entry_cmp_first_byte(entry, entry_or_key, pathname) ==
    strcmp(SubSeq(entry.pathname, 1, 1),
           SubSeq(IF pathname # NoKeydata THEN pathname
                  ELSE entry_or_key.pathname, 1, 1))

\* pathname_entry_cmp(): 0 iff the entry's pathname equals the key
pathname_entry_cmp(entry, entry_or_key, pathname) ==
    strcmp(entry.pathname,
           IF pathname # NoKeydata THEN pathname ELSE entry_or_key.pathname)

\* hashmap_get_from_hash(): an entry of the same hash that compares equal
hashmap_get_from_hash(map, hash, keydata) ==
    LET key == [hash |-> hash, index |-> -1, pathname |-> <<>>]
        hits == {e \in map : e.hash = hash
                             /\ pathname_entry_cmp(e, key, keydata) = 0}
    IN  IF hits = {} THEN NULL ELSE CHOOSE e \in hits : TRUE

\* hashmap_add(): insert, duplicates allowed
hashmap_add(map, entry) == map \cup {entry}

\* ------------------------------------------------------ collect_changes_cb
\* the phase test of line 139 dropped: every pass writes the worktree side
SideOf_worktree(ph) == "worktree"

\* the phase test of line 139 with its branches exchanged
SideOf_swapped(ph) == IF ph = FROM_INDEX THEN "worktree" ELSE "index"

\* the sub-record a phase writes
SideOf(ph) == IF ph = FROM_INDEX THEN "index" ELSE "worktree"

\* the write with binary assigned instead of set
WriteAdddel_assign(adddel, f) ==
    [add |-> f.added, del |-> f.deleted, seen |-> TRUE,
     binary |-> f.is_binary]

\* the write with the counts added up instead of replaced
WriteAdddel_accumulate(adddel, f) ==
    [add |-> adddel.add + f.added, del |-> adddel.del + f.deleted,
     seen |-> TRUE,
     binary |-> IF f.is_binary THEN TRUE ELSE adddel.binary]

\* the write without adddel->seen = 1
WriteAdddel_noseen(adddel, f) ==
    [add |-> f.added, del |-> f.deleted, seen |-> adddel.seen,
     binary |-> IF f.is_binary THEN TRUE ELSE adddel.binary]

\* lines 140-144: the write into the chosen struct adddel
WriteAdddel(adddel, f) ==
    [add |-> f.added, del |-> f.deleted, seen |-> TRUE,
     binary |-> IF f.is_binary THEN TRUE ELSE adddel.binary]

\* one iteration of the loop of collect_changes_cb on st = [list, file_map]
CollectOne(st, ph, f) ==
    LET name == f.name
        hash == strhash(name)
        entry == hashmap_get_from_hash(st.file_map, hash, name)
        file_index == IF entry # NULL THEN entry.index ELSE Len(st.list)
        map1 == IF entry # NULL THEN st.file_map
                ELSE hashmap_add(st.file_map,
                                 [hash |-> hash, index |-> file_index,
                                  pathname |-> name])
        list1 == IF entry # NULL THEN st.list ELSE add_file_item(st.list, name)
        file == list1[file_index + 1]
        side == SideOf(ph)
    IN  [list |-> [list1 EXCEPT ![file_index + 1] =
                      [file EXCEPT ![side] = WriteAdddel(file[side], f)]],
         file_map |-> map1]

\* the loop of collect_changes_cb stopping one entry early (i < stat.nr - 1)
RECURSIVE collect_changes_cb_short(_, _, _)
collect_changes_cb_short(st, ph, files) ==
    IF Len(files) <= 1 THEN st
    ELSE collect_changes_cb_short(CollectOne(st, ph, Head(files)), ph,
                                  Tail(files))

\* collect_changes_cb(): the loop over stat.files[0 .. stat.nr - 1]
RECURSIVE collect_changes_cb(_, _, _)
collect_changes_cb(st, ph, files) ==
    IF files = <<>> THEN st
    ELSE collect_changes_cb(CollectOne(st, ph, Head(files)), ph, Tail(files))

\* ------------------------------------------------------------------- QSORT
\* the permutations of 1..n
Perms(n) == {p \in [1..n -> 1..n] : \A i, j \in 1..n : i # j => p[i] # p[j]}

\* the list left as collected, no sort
QSORT_skipped(list) == {list}

\* QSORT(list->file, list->nr, file_item_cmp): every outcome qsort may
\* produce, i.e. every rearrangement that is ordered under file_item_cmp
QSORT(list) ==
    {[i \in 1..Len(list) |-> list[p[i]]] : p \in
        {q \in Perms(Len(list)) :
            \A i \in 1..(Len(list) - 1) :
                file_item_cmp(list[q[i]], list[q[i + 1]]) <= 0}}

\* --------------------------------------------------------------- printing
\* populate_wi_changes() that tests seen before binary
populate_wi_changes_seen_first(ad, no_changes) ==
    IF ad.seen THEN <<"+", ad.add, "/-", ad.del>>
    ELSE IF ad.binary THEN <<"binary">>
    ELSE <<no_changes>>

\* populate_wi_changes(): the text of one column
populate_wi_changes(ad, no_changes) ==
    IF ad.binary THEN <<"binary">>
    ELSE IF ad.seen THEN <<"+", ad.add, "/-", ad.del>>
    ELSE <<no_changes>>

\* print_file_item() that prints i instead of i + 1
print_file_item_zero_based(i, c) ==
    [kind |-> "item", seq |-> i,
     index |-> populate_wi_changes(c.index, "unchanged"),
     worktree |-> populate_wi_changes(c.worktree, "nothing"),
     name |-> c.name]

\* print_file_item(): " %2d: %12s %12s %s" of i + 1, index, worktree, name
print_file_item(i, c) ==
    [kind |-> "item", seq |-> i + 1,
     index |-> populate_wi_changes(c.index, "unchanged"),
     worktree |-> populate_wi_changes(c.worktree, "nothing"),
     name |-> c.name]

\* the header run_add_i builds: "staged", "unstaged", "path"
HeaderLine == [kind |-> "header"]
\* what putchar('\n') on an empty line leaves
BlankLine == [kind |-> "blank"]

\* list(): nothing for nr = 0, else the header and one line per item
list_items(file, nr) ==
    IF nr = 0 THEN <<>>
    ELSE <<HeaderLine>> \o [i \in 1..nr |-> print_file_item(i - 1, file[i])]

\* ------------------------------------------------------------------ state
VARIABLES
    pc,        \* position in run_add_i / run_status / get_modified_files
    list,      \* files.file[0 .. files.nr - 1]
    file_map,  \* s.file_map, the pathname_entry set
    phase,     \* s.phase
    gmf_ret,   \* <<v>> once get_modified_files returned v to this call
    rs_ret,    \* <<v>> once this run_status call returned v
    res,       \* run_add_i's res
    out,       \* the lines this run_status call wrote to stdout
    runs,      \* run_status calls so far
    stale,     \* history: this run_status call found records in the list
    emitted,   \* history: the stat entries each pass handed over, in order
    batches,   \* history: callback invocations inside the running pass
    calls      \* history: <<run_diff_files calls, run_diff_index calls>>

vars == <<pc, list, file_map, phase, gmf_ret, rs_ret, res, out, runs, stale,
          emitted, batches, calls>>

Init ==
    /\ pc = "run_add_i"
    /\ list = <<>>
    /\ file_map = {}
    /\ phase = FROM_WORKTREE
    /\ gmf_ret = <<>>
    /\ rs_ret = <<>>
    /\ res = 0
    /\ out = <<>>
    /\ runs = 0
    /\ stale = FALSE
    /\ emitted = <<<<>>, <<>>>>
    /\ batches = 0
    /\ calls = <<0, 0>>

\* entry of run_status: reset_file_list(files), then get_modified_files
EnterRunStatus ==
    /\ list' = reset_file_list(list)
    /\ file_map' = {}
    /\ phase' = FROM_WORKTREE
    /\ gmf_ret' = <<>>
    /\ rs_ret' = <<>>
    /\ out' = <<>>
    /\ runs' = runs + 1
    /\ stale' = (Len(list) # 0)
    /\ emitted' = <<<<>>, <<>>>>
    /\ batches' = 0
    /\ calls' = <<0, 0>>
    /\ pc' = "read_index"
    /\ UNCHANGED res

\* run_add_i calls run_status
RunStatus ==
    /\ pc = "run_add_i"
    /\ EnterRunStatus

\* repo_read_index_preload() < 0: get_modified_files returns error(...),
\* run_status returns -1 at once
ReadIndexFail ==
    /\ pc = "read_index"
    /\ gmf_ret' = <<-1>>
    /\ rs_ret' = <<-1>>
    /\ pc' = "returned"
    /\ UNCHANGED <<list, file_map, phase, res, out, runs, stale, emitted, batches,
                   calls>>

\* the index was read: s.list = list, hashmap_init, enter the loop
ReadIndexOk ==
    /\ pc = "read_index"
    /\ file_map' = {}
    /\ phase' = FROM_WORKTREE
    /\ pc' = "loop"
    /\ UNCHANGED <<list, gmf_ret, rs_ret, res, out, runs, stale, emitted, batches,
                   calls>>

\* loop body up to the call of run_diff_files / run_diff_index
StartDiff ==
    /\ pc = "loop"
    /\ phase <= FROM_INDEX
    /\ calls' = [calls EXCEPT ![phase + 1] = @ + 1]
    /\ batches' = 0
    /\ pc' = "diff"
    /\ UNCHANGED <<list, file_map, phase, gmf_ret, rs_ret, res, out, runs, stale,
                   emitted>>

\* the diff engine calls collect_changes_cb with a queue; q->nr = 0 returns
\* at once, otherwise every stat entry is merged
Callback ==
    /\ pc = "diff"
    /\ batches < MaxBatches
    /\ \E n \in 0..MaxBatchLen :
         /\ Len(emitted[1]) + Len(emitted[2]) + n <= MaxEmissions
         /\ \E files \in [1..n -> Emissions] :
              LET st == collect_changes_cb(
                            [list |-> list, file_map |-> file_map],
                            phase, files)
              IN  /\ list' = st.list
                  /\ file_map' = st.file_map
                  /\ emitted' = [emitted EXCEPT ![phase + 1] = @ \o files]
    /\ batches' = batches + 1
    /\ UNCHANGED <<pc, phase, gmf_ret, rs_ret, res, out, runs, stale, calls>>

\* the pass returns and the loop is left at once, whatever the phase
DiffReturn_break ==
    /\ pc = "diff"
    /\ phase' = FROM_INDEX + 1
    /\ batches' = 0
    /\ pc' = "loop"
    /\ UNCHANGED <<list, file_map, gmf_ret, rs_ret, res, out, runs, stale,
                   emitted, calls>>

\* run_diff_files / run_diff_index returns, s.phase++
DiffReturn ==
    /\ pc = "diff"
    /\ phase' = phase + 1
    /\ batches' = 0
    /\ pc' = "loop"
    /\ UNCHANGED <<list, file_map, gmf_ret, rs_ret, res, out, runs, stale,
                   emitted, calls>>

\* loop left, the map kept
HashmapFree_skipped ==
    /\ pc = "loop"
    /\ phase > FROM_INDEX
    /\ pc' = "sort"
    /\ UNCHANGED <<list, file_map, phase, gmf_ret, rs_ret, res, out, runs,
                   stale, emitted, batches, calls>>

\* loop left: hashmap_free(&s.file_map, 1)
HashmapFree ==
    /\ pc = "loop"
    /\ phase > FROM_INDEX
    /\ file_map' = {}
    /\ pc' = "sort"
    /\ UNCHANGED <<list, phase, gmf_ret, rs_ret, res, out, runs, stale, emitted,
                   batches, calls>>

\* QSORT(list->file, list->nr, file_item_cmp); return 0
Sort ==
    /\ pc = "sort"
    /\ list' \in QSORT(list)
    /\ gmf_ret' = <<0>>
    /\ pc' = "print"
    /\ UNCHANGED <<file_map, phase, rs_ret, res, out, runs, stale, emitted, batches,
                   calls>>

\* run_status with the putchar inside the if (files->nr)
PrintStatus_blank_in_if ==
    /\ pc = "print"
    /\ out' = out \o (IF Len(list) # 0
                      THEN list_items(list, Len(list)) \o <<BlankLine>>
                      ELSE <<>>)
    /\ rs_ret' = <<0>>
    /\ pc' = "returned"
    /\ UNCHANGED <<list, file_map, phase, gmf_ret, res, runs, stale, emitted,
                   batches, calls>>

\* run_status after a successful get_modified_files: the listing when
\* files->nr, then putchar('\n'), return 0
PrintStatus ==
    /\ pc = "print"
    /\ out' = out \o (IF Len(list) # 0 THEN list_items(list, Len(list))
                      ELSE <<>>) \o <<BlankLine>>
    /\ rs_ret' = <<0>>
    /\ pc' = "returned"
    /\ UNCHANGED <<list, file_map, phase, gmf_ret, res, runs, stale, emitted,
                   batches, calls>>

\* run_add_i after run_status: res = -1 on failure, release_file_list,
\* return res
Finish ==
    /\ pc = "returned"
    /\ res' = IF rs_ret[1] < 0 THEN -1 ELSE res
    /\ list' = release_file_list(list)
    /\ pc' = "done"
    /\ UNCHANGED <<file_map, phase, gmf_ret, rs_ret, out, runs, stale, emitted,
                   batches, calls>>

\* a caller that asks for the status again on the same file_list
RunStatusAgain ==
    /\ pc = "returned"
    /\ runs < MaxRuns
    /\ EnterRunStatus

Next ==
    \/ RunStatus
    \/ ReadIndexFail
    \/ ReadIndexOk
    \/ StartDiff
    \/ Callback
    \/ DiffReturn
    \/ HashmapFree
    \/ Sort
    \/ PrintStatus
    \/ Finish

Spec == Init /\ [][Next]_vars

NextRuns == Next \/ RunStatusAgain

SpecRuns == Init /\ [][NextRuns]_vars

\* ------------------------------------------------------ history operators
\* the names of the records of l
NamesOf(l) == {l[i].name : i \in 1..Len(l)}

\* the paths pass ph handed over so far in this run
EmittedPaths(ph) ==
    {emitted[ph + 1][k].name : k \in 1..Len(emitted[ph + 1])}

\* the position in seq s of the last entry for path p (0 when there is none)
LastOf(s, p) ==
    IF \E k \in 1..Len(s) : s[k].name = p
    THEN CHOOSE k \in 1..Len(s) :
            /\ s[k].name = p
            /\ \A m \in (k + 1)..Len(s) : s[m].name # p
    ELSE 0

\* get_modified_files returned 0 and run_add_i has not released the list yet
Collected == gmf_ret = <<0>> /\ pc \in {"print", "returned"}

\* ------------------------------------------------------------------ claims

\* C1: Uniqueness. In every reachable state (after any sequence of callback
\* batches in either phase, with paths repeated within a batch, across
\* batches and across phases, and in the final list) no two records of the
\* file list have the same name.
C1_Uniqueness ==
    \A i, j \in 1..Len(list) : i # j => list[i].name # list[j].name

\* a path was handed over twice in one pass and again in the other pass,
\* and the passes are over
C1_Witness ==
    /\ Collected
    /\ Len(list) = 1
    /\ \E p \in EmittedPaths(FROM_WORKTREE) \cap EmittedPaths(FROM_INDEX) :
         \E k, m \in 1..Len(emitted[1]) \cup 1..Len(emitted[2]) :
            \E ph \in {1, 2} :
               /\ k < m /\ m <= Len(emitted[ph])
               /\ emitted[ph][k].name = p /\ emitted[ph][m].name = p

\* C2: Total order. When get_modified_files has returned 0 the file list is
\* strictly ascending by name under byte-wise comparison, whatever order the
\* passes emitted the paths in.
C2_TotalOrder ==
    gmf_ret = <<0>> =>
        \A i \in 1..(Len(list) - 1) : strcmp(list[i].name, list[i + 1].name) < 0

\* three records were discovered in the order "ab", "a", "B" and are sorted
C2_Witness ==
    /\ Collected
    /\ Len(list) = 3
    /\ (emitted[1] \o emitted[2])[1].name = <<97, 98>>
    /\ (emitted[1] \o emitted[2])[2].name = <<97>>

\* C3: Phase isolation. In every reachable state, a side (index, worktree) of
\* a record whose path was not emitted in that side's phase has seen = false,
\* add = 0, del = 0 and binary = false.
C3_PhaseIsolation ==
    \A i \in 1..Len(list) :
        /\ list[i].name \notin EmittedPaths(FROM_INDEX) =>
              list[i].index =
                 [add |-> 0, del |-> 0, seen |-> FALSE, binary |-> FALSE]
        /\ list[i].name \notin EmittedPaths(FROM_WORKTREE) =>
              list[i].worktree =
                 [add |-> 0, del |-> 0, seen |-> FALSE, binary |-> FALSE]

\* the final list holds a worktree-only record and an index-only record
C3_Witness ==
    /\ Collected
    /\ \E i, j \in 1..Len(list) :
         /\ list[i].name \notin EmittedPaths(FROM_INDEX)
         /\ list[i].worktree.seen
         /\ list[j].name \notin EmittedPaths(FROM_WORKTREE)
         /\ list[j].index.seen

\* the stat entries a callback step appended to the history of its pass
NewFiles == SubSeq(emitted'[phase + 1], Len(emitted[phase + 1]) + 1,
                   Len(emitted'[phase + 1]))

\* what one callback step may change: no name, no slot, not the side of the
\* other phase, no record of a path it did not get
C4_Frame ==
    (pc = "diff" /\ pc' = "diff") =>
        /\ Len(list') >= Len(list)
        /\ \A i \in 1..Len(list) :
             /\ list'[i].name = list[i].name
             /\ phase = FROM_WORKTREE => list'[i].index = list[i].index
             /\ phase = FROM_INDEX => list'[i].worktree = list[i].worktree
             /\ (\A k \in 1..Len(NewFiles) : NewFiles[k].name # list[i].name)
                   => list'[i] = list[i]
        /\ \A i \in (Len(list) + 1)..Len(list') :
             /\ phase = FROM_WORKTREE => ~list'[i].index.seen
             /\ phase = FROM_INDEX => ~list'[i].worktree.seen

\* a path reported by both passes has one record, and each side of it holds
\* what its own pass reported last
C4_BothSides ==
    \A p \in EmittedPaths(FROM_WORKTREE) \cap EmittedPaths(FROM_INDEX) :
        /\ Cardinality({i \in 1..Len(list) : list[i].name = p}) = 1
        /\ \A i \in 1..Len(list) : list[i].name = p =>
             LET w == emitted[1][LastOf(emitted[1], p)]
                 x == emitted[2][LastOf(emitted[2], p)]
             IN  /\ list[i].worktree.seen /\ list[i].index.seen
                 /\ list[i].worktree.add = w.added
                 /\ list[i].worktree.del = w.deleted
                 /\ list[i].index.add = x.added
                 /\ list[i].index.del = x.deleted

\* C4: No cross-phase overwrite. A callback in phase WORKTREE leaves the index
\* side of every record unchanged, a callback in phase INDEX leaves the
\* worktree side of every record unchanged, both leave the records of other
\* paths unchanged; a path reported by both passes with different stats ends
\* in one record that holds each pass's stats on its own side.
C4_NoCrossPhaseOverwrite ==
    /\ [][C4_Frame]_vars
    /\ [](pc \in {"diff", "loop", "sort", "print", "returned"} => C4_BothSides)

\* one record, its two sides written by the two passes with different stats
C4_Witness ==
    /\ Collected
    /\ \E i \in 1..Len(list) :
         /\ list[i].name \in EmittedPaths(FROM_WORKTREE) \cap
                             EmittedPaths(FROM_INDEX)
         /\ list[i].worktree.add # list[i].index.add
         /\ list[i].worktree.del # list[i].index.del

\* C5: Binary stickiness. Within one run, a sub-record whose binary flag is
\* set keeps it in every later state in which the record exists, also after
\* a later emission for the same path in the same phase with is_binary = 0.
C5_BinarySticky ==
    [][\A i \in 1..Len(list) : \A j \in 1..Len(list') :
         list[i].name = list'[j].name =>
            /\ list[i].index.binary => list'[j].index.binary
            /\ list[i].worktree.binary => list'[j].worktree.binary]_vars

\* a side is binary although the last emission for it said is_binary = 0
C5_Witness ==
    /\ Collected
    /\ \E i \in 1..Len(list) : \E ph \in {1, 2} :
         LET k == LastOf(emitted[ph], list[i].name)
             ad == IF ph = 1 THEN list[i].worktree ELSE list[i].index
         IN  /\ k > 1
             /\ ~emitted[ph][k].is_binary
             /\ ad.binary

\* C6: Registry/list consistency. In every state every entry of file_map has
\* index < list.nr and its pathname is the name of list.file[index]; this
\* covers the states in which the list has been sorted.
C6_RegistryConsistent ==
    \A e \in file_map :
        /\ 0 <= e.index
        /\ e.index < Len(list)
        /\ e.pathname = list[e.index + 1].name

\* the second pass is running and the map holds three entries, two of them
\* in the same hash bucket
C6_Witness ==
    /\ pc = "diff"
    /\ phase = FROM_INDEX
    /\ Cardinality(file_map) = 3
    /\ emitted[2] # <<>>

\* C7: Index read failure. When reading the index fails, get_modified_files
\* returns an error before either pass is invoked and before any record is
\* written, run_status returns -1 with nothing printed, the list holds no
\* record (of this run or of an earlier one) and run_add_i returns -1.
C7_IndexReadFailure ==
    gmf_ret = <<-1>> =>
        /\ calls = <<0, 0>>
        /\ emitted = <<<<>>, <<>>>>
        /\ list = <<>>
        /\ file_map = {}
        /\ out = <<>>
        /\ rs_ret = <<-1>>
        /\ pc \in {"returned", "done"}
        /\ pc = "done" => res = -1

\* the index read failed in a run that found records of the run before
C7_Witness ==
    /\ gmf_ret = <<-1>>
    /\ pc = "done"
    /\ stale

\* --------------------------------------------------- runs on other orders
\* the rearrangements of a sequence
PermSeqs(s) == {[i \in 1..Len(s) |-> s[p[i]]] : p \in Perms(Len(s))}

\* the lists a run can return when the pass of phase ph1 hands over s1 and,
\* after it, the pass of phase ph2 hands over s2
RunPasses(ph1, s1, ph2, s2) ==
    QSORT(collect_changes_cb(
              collect_changes_cb([list |-> <<>>, file_map |-> {}], ph1, s1),
              ph2, s2).list)

\* within s, all entries of one path carry the same added and deleted
SameCounts(s) ==
    \A k, m \in 1..Len(s) :
        s[k].name = s[m].name =>
            s[k].added = s[m].added /\ s[k].deleted = s[m].deleted

\* C8 as stated: Emission-order independence. For the emissions of a run,
\* every order of delivery within each pass gives the final sorted list that
\* this run returned.
C8_OrderIndependent ==
    Collected =>
        \A w \in PermSeqs(emitted[1]) : \A x \in PermSeqs(emitted[2]) :
            RunPasses(FROM_WORKTREE, w, FROM_INDEX, x) = {list}

\* C8 amended: Emission-order independence when, within each pass, the
\* entries of one path all carry the same added and deleted counts (a pass
\* that reports each path once is the main case): every order of delivery
\* within each pass gives the final sorted list that this run returned.
C8_OrderIndependentSameCounts ==
    (Collected /\ SameCounts(emitted[1]) /\ SameCounts(emitted[2])) =>
        \A w \in PermSeqs(emitted[1]) : \A x \in PermSeqs(emitted[2]) :
            RunPasses(FROM_WORKTREE, w, FROM_INDEX, x) = {list}

\* a pass reported "ab" before "a", once binary and once not, and the list is
\* returned in the order "a", "ab"
C8_Witness ==
    /\ Collected
    /\ SameCounts(emitted[1]) /\ SameCounts(emitted[2])
    /\ Len(emitted[1]) = 3
    /\ emitted[1][1].name = <<97, 98>> /\ emitted[1][1].is_binary
    /\ emitted[1][2].name = <<97>>
    /\ emitted[1][3].name = <<97, 98>> /\ ~emitted[1][3].is_binary
    /\ Len(list) = 2

\* C9: Phase-order independence. Running the index pass before the worktree
\* pass on the same emissions gives the final sorted list that this run
\* (worktree pass first) returned.
C9_PhaseOrderIndependent ==
    Collected =>
        RunPasses(FROM_INDEX, emitted[2], FROM_WORKTREE, emitted[1]) = {list}

\* the two passes share a path and each found a path of its own first, so
\* the slot order before the sort depends on which pass runs first
C9_Witness ==
    /\ Collected
    /\ Len(emitted[1]) >= 1 /\ Len(emitted[2]) >= 1
    /\ emitted[1][1].name # emitted[2][1].name
    /\ EmittedPaths(FROM_WORKTREE) \cap EmittedPaths(FROM_INDEX) # {}
    /\ collect_changes_cb(
          collect_changes_cb([list |-> <<>>, file_map |-> {}],
                             FROM_INDEX, emitted[2]),
          FROM_WORKTREE, emitted[1]).list
       # collect_changes_cb(
          collect_changes_cb([list |-> <<>>, file_map |-> {}],
                             FROM_WORKTREE, emitted[1]),
          FROM_INDEX, emitted[2]).list

\* what holds of the pass counters in every state of a run
C10_Counts ==
    /\ calls[1] <= 1 /\ calls[2] <= 1
    /\ calls[2] = 1 => (calls[1] = 1 /\ phase >= FROM_INDEX)
    /\ emitted[1] # <<>> => calls[1] = 1
    /\ emitted[2] # <<>> => calls[2] = 1
    /\ pc \in {"sort", "print"} => (calls = <<1, 1>> /\ phase > FROM_INDEX)
    /\ gmf_ret = <<0>> => (calls = <<1, 1>> /\ phase > FROM_INDEX)
    /\ pc \in {"returned", "done"} =>
          \/ gmf_ret = <<0>> /\ calls = <<1, 1>>
          \/ gmf_ret = <<-1>> /\ calls = <<0, 0>>

\* what holds of every step: a callback runs inside the one pass of its
\* phase, none of phase WORKTREE once the index pass was invoked, and the
\* list is only rearranged by the sort after both passes
C10_Steps ==
    /\ batches' = batches + 1 =>
          /\ pc = "diff" /\ phase \in {FROM_WORKTREE, FROM_INDEX}
          /\ calls[phase + 1] = 1
          /\ phase = FROM_WORKTREE => calls[2] = 0
          /\ emitted'[2 - phase] = emitted[2 - phase]
    /\ (calls[2] = 1 /\ calls'[2] = 1) => emitted'[1] = emitted[1]
    /\ (pc = "sort" /\ pc' # "sort") => (calls = <<1, 1>> /\ pc' = "print")

\* C10: Phase sequencing. In a run whose index read succeeds the worktree
\* pass is invoked once and returns before the index pass is invoked once,
\* every WORKTREE batch is processed before any INDEX batch, the sort comes
\* after both passes, and no run ends with one pass only.
C10_PhaseSequencing == []C10_Counts /\ [][C10_Steps]_vars

\* a run ended after both passes handed over entries
C10_Witness ==
    /\ pc = "returned"
    /\ gmf_ret = <<0>>
    /\ calls = <<1, 1>>
    /\ emitted[1] # <<>> /\ emitted[2] # <<>>

\* run_status returned 0 and run_add_i has not released the list yet
Printed == pc = "returned" /\ rs_ret = <<0>>

\* col is the column text the rendering contract gives for ad
C11_Renders(ad, placeholder, col) ==
    /\ ad.binary => col = <<"binary">>
    /\ (~ad.binary /\ ad.seen) => col = <<"+", ad.add, "/-", ad.del>>
    /\ (~ad.binary /\ ~ad.seen) => col = <<placeholder>>

\* C11: Rendering contract. populate_wi_changes yields "binary" when binary
\* is set (whatever seen, add and del are), else "+add/-del" when seen is
\* set, else the placeholder; the printed line of every record carries this
\* text with "unchanged" for the index side and "nothing" for the worktree.
C11_RenderingContract ==
    /\ \A ad \in [add : {0, 3}, del : {0, 2}, seen : BOOLEAN, binary : BOOLEAN] :
          \A ph \in {"nothing", "unchanged"} :
             C11_Renders(ad, ph, populate_wi_changes(ad, ph))
    /\ Printed =>
          \A k \in 1..Len(list) :
             /\ C11_Renders(list[k].index, "unchanged", out[k + 1].index)
             /\ C11_Renders(list[k].worktree, "nothing", out[k + 1].worktree)

\* the listing shows a binary column, a counted column and both placeholders
C11_Witness ==
    /\ Printed
    /\ \E i, j \in 2..(Len(out) - 1) :
         /\ out[i].worktree = <<"binary">>
         /\ out[i].index = <<"unchanged">>
         /\ out[j].worktree = <<"nothing">>
         /\ Len(out[j].index) = 4

\* the header, one numbered line per record in list order, one blank line
C12_FullListing ==
    /\ Len(out) = Len(list) + 2
    /\ out[1] = [kind |-> "header"]
    /\ \A k \in 1..Len(list) :
          /\ out[k + 1].kind = "item"
          /\ out[k + 1].seq = k
          /\ out[k + 1].name = list[k].name
    /\ out[Len(out)] = [kind |-> "blank"]

\* C12 as stated: Output shape. Every successful run_status prints one
\* header line, one line per record in list order numbered from 1, and one
\* trailing blank line, also for an empty list.
C12_OutputShape == Printed => C12_FullListing

\* C12 amended: Output shape. A successful run_status with a non-empty list
\* prints one header line, one line per record in list order numbered from
\* 1, and one trailing blank line; with an empty list it prints the trailing
\* blank line only, without the header.
C12_OutputShapeNonEmpty ==
    Printed =>
        IF Len(list) = 0 THEN out = <<[kind |-> "blank"]>>
        ELSE C12_FullListing

\* three records were listed
C12_Witness ==
    /\ Printed
    /\ Len(list) = 3
    /\ Len(out) = 5

\* C13: Scenario B. When both passes hand over nothing (no batch or empty
\* batches only) the run succeeds with an empty list and all that run_status
\* prints is the trailing blank line.
C13_ScenarioB ==
    /\ (gmf_ret = <<0>> /\ pc = "print" /\ emitted = <<<<>>, <<>>>>) =>
          list = <<>>
    /\ (pc = "returned" /\ gmf_ret = <<0>> /\ emitted = <<<<>>, <<>>>>) =>
          /\ rs_ret = <<0>>
          /\ list = <<>>
          /\ out = <<[kind |-> "blank"]>>

\* a run without any emission has returned
C13_Witness ==
    /\ Printed
    /\ calls = <<1, 1>>
    /\ emitted = <<<<>>, <<>>>>
    /\ Len(out) = 1

\* list and file_map as the two passes build them from nothing out of the
\* emissions of this run, in the order of delivery
FromScratch ==
    collect_changes_cb(
        collect_changes_cb([list |-> <<>>, file_map |-> {}],
                           FROM_WORKTREE, emitted[1]),
        FROM_INDEX, emitted[2])

\* C14: Clean start of every run. For any sequence of run_status calls on
\* one file list, a run starts with an empty list and an empty registry, so
\* list and registry depend on the emissions of this run only; a run without
\* emissions after a run with records returns an empty list.
C14_CleanStart ==
    LET fresh == FromScratch
    IN  /\ (pc = "read_index" \/ (pc = "loop" /\ calls = <<0, 0>>)) =>
              (list = <<>> /\ file_map = {})
        /\ pc \in {"loop", "diff"} => file_map = fresh.file_map
        /\ pc \in {"loop", "diff", "sort"} => list = fresh.list
        /\ Collected => list \in QSORT(fresh.list)
        /\ (Collected /\ emitted = <<<<>>, <<>>>>) => list = <<>>

\* a run without emissions returned after a run that left records
C14_Witness ==
    /\ Collected
    /\ runs = 2
    /\ stale
    /\ emitted = <<<<>>, <<>>>>
    /\ list = <<>>

\* what a callback step of phase `phase` leaves in the side it writes, for
\* every path of the batch
C15_Step ==
    (pc = "diff" /\ pc' = "diff") =>
        \A k \in 1..Len(NewFiles) :
            LET p == NewFiles[k].name
                last == NewFiles[LastOf(NewFiles, p)]
                before == \E i \in 1..Len(list) :
                             /\ list[i].name = p
                             /\ IF phase = FROM_INDEX THEN list[i].index.binary
                                ELSE list[i].worktree.binary
                reported == \E m \in 1..Len(NewFiles) :
                               NewFiles[m].name = p /\ NewFiles[m].is_binary
            IN  \E j \in 1..Len(list') :
                   /\ list'[j].name = p
                   /\ LET ad == IF phase = FROM_INDEX THEN list'[j].index
                                ELSE list'[j].worktree
                      IN  /\ ad.seen
                          /\ ad.add = last.added
                          /\ ad.del = last.deleted
                          /\ ad.binary = (before \/ reported)

\* C15: Write semantics. After collect_changes_cb processed an emission
\* (p, a, d, b) in phase P, the P side of p's record has seen set, add = a
\* and del = d (the last reported values replace earlier ones of the phase)
\* and binary = (binary before, or b).
C15_WriteSemantics == [][C15_Step]_vars

\* a pass reported a path as binary with counts 3/1 and later as not binary
\* with counts 0/2: the side reads 0/2 and binary
C15_Witness ==
    /\ pc = "diff"
    /\ \E i \in 1..Len(list) :
         LET s == emitted[phase + 1]
             ad == IF phase = FROM_INDEX THEN list[i].index
                   ELSE list[i].worktree
         IN  /\ Len(s) >= 2
             /\ s[1].name = list[i].name /\ s[1].is_binary /\ s[1].added = 3
             /\ s[Len(s)].name = list[i].name /\ ~s[Len(s)].is_binary
             /\ s[Len(s)].added = 0
             /\ ad = [add |-> 0, del |-> 2, seen |-> TRUE, binary |-> TRUE]

\* where the registry is empty
C16_Empty ==
    /\ pc \in {"run_add_i", "read_index", "sort", "print", "returned", "done"}
          => file_map = {}
    /\ file_map # {} => (gmf_ret = <<>> /\ calls[1] = 1)

\* the steps that touch the registry: callbacks inside a pass fill it, the
\* step that leaves the loop after the second pass empties it, and the sort
\* comes after that
C16_Steps ==
    /\ file_map' # file_map =>
          \/ pc = "diff" /\ pc' = "diff"
          \/ /\ pc = "loop" /\ phase > FROM_INDEX /\ calls = <<1, 1>>
             /\ pc' = "sort" /\ file_map' = {} /\ list' = list
    /\ (pc = "read_index" /\ pc' = "loop") => file_map' = {}
    /\ (pc = "sort" /\ pc' # "sort") =>
          (pc' = "print" /\ file_map = {} /\ file_map' = {})

\* C16: Registry lifetime. The registry is created empty after the index
\* read succeeded, freed after the second pass returned and before the list
\* is sorted, and not looked up or filled once the sort has begun, so no
\* registry index refers to a slot of the sorted list.
C16_RegistryLifetime == []C16_Empty /\ [][C16_Steps]_vars

\* the registry is gone and the sort is about to move records
C16_Witness ==
    /\ pc = "sort"
    /\ file_map = {}
    /\ Len(list) >= 2
    /\ strcmp(list[1].name, list[2].name) > 0

\* the distinct names of s in the order of their first entry, after acc
RECURSIVE FirstNames(_, _)
FirstNames(s, acc) ==
    IF s = <<>> THEN acc
    ELSE IF \E i \in 1..Len(acc) : acc[i] = Head(s).name
         THEN FirstNames(Tail(s), acc)
         ELSE FirstNames(Tail(s), Append(acc, Head(s).name))

\* before the sort, slot i holds the (i + 1)-th distinct path of the run
C17_Slots ==
    pc \in {"read_index", "loop", "diff", "sort"} =>
        [i \in 1..Len(list) |-> list[i].name]
            = FirstNames(emitted[1] \o emitted[2], <<>>)

\* while the passes run the list only grows at its end
C17_Steps ==
    (pc \in {"loop", "diff"} /\ pc' \in {"loop", "diff", "sort"}) =>
        /\ Len(list') >= Len(list)
        /\ \A i \in 1..Len(list) : list'[i].name = list[i].name

\* C17: First-discovery order. In every state before the sort the list is
\* append-only and record i (0-based) is the (i + 1)-th distinct path
\* emitted across both phases; slot and name of a record do not change
\* while the passes run.
C17_FirstDiscoveryOrder == []C17_Slots /\ [][C17_Steps]_vars

\* paths x, y, x were handed over across the two passes: slots x, y
C17_Witness ==
    /\ pc = "sort"
    /\ emitted[2] # <<>>
    /\ Len(emitted[1] \o emitted[2]) = 3
    /\ (emitted[1] \o emitted[2])[1].name = (emitted[1] \o emitted[2])[3].name
    /\ (emitted[1] \o emitted[2])[1].name # (emitted[1] \o emitted[2])[2].name
    /\ Len(list) = 2
    /\ list[1].name = emitted[1][1].name

\* C18: Completeness. When get_modified_files returned 0 the names in the
\* list are exactly the paths emitted in either phase of the run, and
\* list.nr is the number of distinct emitted paths.
C18_Completeness ==
    Collected =>
        /\ NamesOf(list) =
              EmittedPaths(FROM_WORKTREE) \cup EmittedPaths(FROM_INDEX)
        /\ Len(list) = Cardinality(EmittedPaths(FROM_WORKTREE)
                                   \cup EmittedPaths(FROM_INDEX))

\* three emissions of two paths, one of them only in the index pass
C18_Witness ==
    /\ Collected
    /\ Len(emitted[1]) + Len(emitted[2]) = 3
    /\ Cardinality(EmittedPaths(FROM_WORKTREE)
                   \cup EmittedPaths(FROM_INDEX)) = 2
    /\ EmittedPaths(FROM_INDEX) \ EmittedPaths(FROM_WORKTREE) # {}
    /\ Len(list) = 2

\* C19: Dedup is by name, not by hash. Two emitted paths with different
\* names have two different records, also when strhash gives them the same
\* value, and a lookup for a name returns the slot of the record of exactly
\* that name (no entry when there is no such record).
C19_DedupByName ==
    /\ pc \in {"loop", "diff", "sort", "print", "returned"} =>
          \A p, q \in EmittedPaths(FROM_WORKTREE) \cup EmittedPaths(FROM_INDEX) :
             p # q => \E i, j \in 1..Len(list) :
                         i # j /\ list[i].name = p /\ list[j].name = q
    /\ pc \in {"loop", "diff"} =>
          \A n \in Paths :
             LET e == hashmap_get_from_hash(file_map, strhash(n), n)
             IN  IF n \in NamesOf(list)
                 THEN /\ e # NULL
                      /\ e.index >= 0 /\ e.index < Len(list)
                      /\ list[e.index + 1].name = n
                 ELSE e = NULL

\* "a" and "ab" have the same hash and both have a record and a map entry
C19_Witness ==
    /\ pc = "diff"
    /\ strhash(<<97>>) = strhash(<<97, 98>>)
    /\ {<<97>>, <<97, 98>>} \subseteq NamesOf(list)
    /\ \E e1, e2 \in file_map :
         /\ e1.pathname = <<97>> /\ e2.pathname = <<97, 98>>
         /\ e1.hash = e2.hash /\ e1.index # e2.index

\* C20: No empty record. In every state every record has index.seen or
\* worktree.seen: a record is created by the emission that writes one of
\* its sides.
C20_NoEmptyRecord ==
    \A i \in 1..Len(list) : list[i].index.seen \/ list[i].worktree.seen

\* the final list holds a record seen on both sides and one seen on one
C20_Witness ==
    /\ Collected
    /\ \E i, j \in 1..Len(list) :
         /\ list[i].index.seen /\ list[i].worktree.seen
         /\ list[j].index.seen /\ ~list[j].worktree.seen

====
